---- MODULE Spec2Model ----
(***************************************************************************)
(* Model of generate_feed.py: the FDA cosmetics news page is fetched, the  *)
(* "Recent News & Updates" section is isolated, dated links are extracted, *)
(* deduplicated, sorted newest first, capped, serialized as RSS items and  *)
(* written to feed.xml.                                                    *)
(*                                                                         *)
(* Text is a sequence of atoms.  An atom is a one-character string, or a   *)
(* run of ordinary characters (the words of a title, a host name, a path)  *)
(* kept as one string; a run never holds a character that an operation     *)
(* applied to its text treats specially (so the spaces of a link's title   *)
(* are atoms of their own).  "NBSP" stands for U+00A0 and "U+FFFD" for any *)
(* character outside the alphabet used.                                    *)
(***************************************************************************)
EXTENDS Integers, Sequences, FiniteSets, TLC

VARIABLES
  pc,          \* where the run is
  err,         \* the exception that ended the run, "none" if none
  status,      \* the exit status of the process, -1 while it runs
  page_html,   \* main and extract_recent_news_items: the fetched page
  section,     \* extract_recent_news_items: the text that is scanned
  ms,          \* the matches of pat.finditer(section), in document order
  mi,          \* the match the loop is at, from 1
  items,       \* extract_recent_news_items: items
  seen,        \* extract_recent_news_items: seen
  main_items,  \* main: items, what the extractor returned
  rss_items,   \* main: rss_items
  build_dt,    \* main: build_dt
  feed_file,   \* feed.xml
  printed,     \* the count main prints, -1 before
  date_str,    \* parse_mmddyyyy: its argument
  pub_dt,      \* parse_mmddyyyy: its result
  title,       \* an entry's title
  title_xml    \* the text of its <title> element

vars == <<pc, err, status, page_html, section, ms, mi, items, seen,
          main_items, rss_items, build_dt, feed_file, printed,
          date_str, pub_dt, title, title_xml>>

(***************************************************************************)
(* Text helpers: the str and re operations the program uses.               *)
(***************************************************************************)

\* Characters str.strip() and the pattern \s treat as whitespace.
Whitespace == {" ", "\n", "\t", "NBSP"}

Digits == {"0", "1", "2", "3", "4", "5", "6", "7", "8", "9"}

DigitVal(c) ==
  CASE c = "0" -> 0 [] c = "1" -> 1 [] c = "2" -> 2 [] c = "3" -> 3
    [] c = "4" -> 4 [] c = "5" -> 5 [] c = "6" -> 6 [] c = "7" -> 7
    [] c = "8" -> 8 [] c = "9" -> 9

HexDigits == Digits \cup {"a", "b", "c", "d", "e", "f"}

HexVal(c) ==
  CASE c \in Digits -> DigitVal(c)
    [] c = "a" -> 10 [] c = "b" -> 11 [] c = "c" -> 12
    [] c = "d" -> 13 [] c = "e" -> 14 [] c = "f" -> 15

\* s[a:b] of Python for 0 <= a, 0 <= b: the atoms at 0-based positions a..b-1.
Slice(s, a, b) ==
  LET hi == IF b < Len(s) THEN b ELSE Len(s)
  IN  IF a >= hi THEN <<>> ELSE SubSeq(s, a + 1, hi)

\* s[:n]
Take(s, n) == Slice(s, 0, n)

\* str.strip(): leading and trailing whitespace removed.
Strip(s) ==
  LET keep == {i \in 1..Len(s) : s[i] \notin Whitespace}
  IN  IF keep = {} THEN <<>>
      ELSE LET lo == CHOOSE i \in keep : \A j \in keep : i <= j
               hi == CHOOSE i \in keep : \A j \in keep : j <= i
           IN  SubSeq(s, lo, hi)

\* str.split(sep) for a one-character separator: always at least one field.
RECURSIVE SplitFrom(_, _, _, _)
SplitFrom(s, sep, i, cur) ==
  IF i > Len(s) THEN <<cur>>
  ELSE IF s[i] = sep THEN <<cur>> \o SplitFrom(s, sep, i + 1, <<>>)
  ELSE SplitFrom(s, sep, i + 1, Append(cur, s[i]))

Split(s, sep) == SplitFrom(s, sep, 1, <<>>)

\* The value of a run of decimal digits.
RECURSIVE DecValue(_)
DecValue(ds) ==
  IF ds = <<>> THEN 0
  ELSE 10 * DecValue(SubSeq(ds, 1, Len(ds) - 1)) + DigitVal(ds[Len(ds)])

RECURSIVE HexValue(_)
HexValue(ds) ==
  IF ds = <<>> THEN 0
  ELSE 16 * HexValue(SubSeq(ds, 1, Len(ds) - 1)) + HexVal(ds[Len(ds)])

\* int(x): surrounding whitespace and one sign are accepted, then one or more
\* digits; anything else raises ValueError (ok = FALSE).
ParseInt(x) ==
  LET t    == Strip(x)
      neg  == t # <<>> /\ t[1] = "-"
      sgn  == t # <<>> /\ t[1] \in {"-", "+"}
      body == IF sgn THEN Tail(t) ELSE t
  IN  IF body # <<>> /\ \A i \in 1..Len(body) : body[i] \in Digits
      THEN [ok |-> TRUE, val |-> IF neg THEN 0 - DecValue(body) ELSE DecValue(body)]
      ELSE [ok |-> FALSE, val |-> 0]

(***************************************************************************)
(* parse_mmddyyyy and the datetime constructor it calls.                   *)
(***************************************************************************)

IsLeap(y) == (y % 4 = 0 /\ y % 100 # 0) \/ y % 400 = 0

DaysInMonth(y, m) ==
  IF m = 2 THEN (IF IsLeap(y) THEN 29 ELSE 28)
  ELSE IF m \in {4, 6, 9, 11} THEN 30 ELSE 31

\* A failed parse: the exception parse_mmddyyyy raises.
Raised == [ok |-> FALSE, y |-> 0, m |-> 0, d |-> 0, hh |-> 0, mi |-> 0, ss |-> 0, tz |-> "none"]

\* datetime(yy, mm, dd, 0, 0, 0, tzinfo=timezone.utc): ValueError outside the calendar.
MakeDatetime(yy, mm, dd) ==
  IF yy >= 1 /\ yy <= 9999 /\ mm >= 1 /\ mm <= 12 /\ dd >= 1 /\ dd <= DaysInMonth(yy, mm)
  THEN [ok |-> TRUE, y |-> yy, m |-> mm, d |-> dd, hh |-> 0, mi |-> 0, ss |-> 0, tz |-> "UTC"]
  ELSE Raised

\* A variant that reads a two-digit year as 19YY.
NormalizeYear1900(yy) == IF yy < 100 THEN 1900 + yy ELSE yy

\* The year rule of parse_mmddyyyy: a year below 100 is 2000 + YY.
NormalizeYear(yy) == IF yy < 100 THEN 2000 + yy ELSE yy

parse_mmddyyyy(str) ==
  LET s     == Strip(str)
      parts == Split(s, "/")
  IN  IF Len(parts) # 3 THEN Raised
      ELSE LET mm == ParseInt(parts[1])
               dd == ParseInt(parts[2])
               yy == ParseInt(parts[3])
           IN  IF ~(mm.ok /\ dd.ok /\ yy.ok) THEN Raised
               ELSE MakeDatetime(NormalizeYear(yy.val), mm.val, dd.val)

(***************************************************************************)
(* Title normalization (lines 70-71) and html.escape / html.unescape.      *)
(***************************************************************************)

\* re.sub(r"<[^>]+>", "", raw): a "<", one or more atoms other than ">", a ">".
RECURSIVE StripTagsFrom(_, _)
StripTagsFrom(s, i) ==
  IF i > Len(s) THEN <<>>
  ELSE LET closers == {j \in (i + 1)..Len(s) : s[j] = ">"}
           j       == IF closers = {} THEN 0
                      ELSE CHOOSE c \in closers : \A k \in closers : c <= k
       IN  IF s[i] = "<" /\ j > i + 1
           THEN StripTagsFrom(s, j + 1)
           ELSE <<s[i]>> \o StripTagsFrom(s, i + 1)

StripTags(s) == StripTagsFrom(s, 1)

\* re.sub(r"\s+", " ", s): each run of whitespace becomes one space.
RECURSIVE CollapseFrom(_, _)
CollapseFrom(s, i) ==
  IF i > Len(s) THEN <<>>
  ELSE IF s[i] \in Whitespace
       THEN (IF i > 1 /\ s[i - 1] \in Whitespace THEN <<>> ELSE <<" ">>)
            \o CollapseFrom(s, i + 1)
       ELSE <<s[i]>> \o CollapseFrom(s, i + 1)

CollapseWs(s) == CollapseFrom(s, 1)

\* str.replace(ch, rep) for a one-character ch.
RECURSIVE Replace(_, _, _)
Replace(s, ch, rep) ==
  IF s = <<>> THEN <<>>
  ELSE (IF Head(s) = ch THEN rep ELSE <<Head(s)>>) \o Replace(Tail(s), ch, rep)

\* A variant of html.escape that replaces "&" after the other characters, so
\* the entities it has just written are escaped again.
EscapeAmpLast(s) ==
  LET r1 == Replace(s, "<", <<"&", "l", "t", ";">>)
      r2 == Replace(r1, ">", <<"&", "g", "t", ";">>)
      r3 == Replace(r2, "\"", <<"&", "q", "u", "o", "t", ";">>)
      r4 == Replace(r3, "'", <<"&", "#", "x", "2", "7", ";">>)
  IN  Replace(r4, "&", <<"&", "a", "m", "p", ";">>)

\* html.escape(s) with quote=True: "&" first, then "<", ">", '"' and "'".
escape(s) ==
  LET r1 == Replace(s, "&", <<"&", "a", "m", "p", ";">>)
      r2 == Replace(r1, "<", <<"&", "l", "t", ";">>)
      r3 == Replace(r2, ">", <<"&", "g", "t", ";">>)
      r4 == Replace(r3, "\"", <<"&", "q", "u", "o", "t", ";">>)
  IN  Replace(r4, "'", <<"&", "#", "x", "2", "7", ";">>)

\* The named character references of html.entities.html5 that the alphabet can
\* spell, with and without the closing ";" (the legacy forms).
NamedRefs ==
  { [name |-> <<"a", "m", "p">>, out |-> "&"],
    [name |-> <<"l", "t">>, out |-> "<"],
    [name |-> <<"g", "t">>, out |-> ">"],
    [name |-> <<"q", "u", "o", "t">>, out |-> "\""],
    [name |-> <<"n", "b", "s", "p">>, out |-> "NBSP"] }

\* chr(n) for the code points of the alphabet; any other character is "U+FFFD".
Chr(n) ==
  CASE n = 34 -> "\"" [] n = 38 -> "&" [] n = 39 -> "'" [] n = 60 -> "<"
    [] n = 62 -> ">" [] n = 160 -> "NBSP" [] OTHER -> "U+FFFD"

\* The length of the longest prefix of s[k..] whose atoms are all in set.
RECURSIVE RunLen(_, _, _)
RunLen(s, k, set) ==
  IF k > Len(s) \/ s[k] \notin set THEN 0 ELSE 1 + RunLen(s, k + 1, set)

\* The length of the longest prefix of s[k..] with no atom in set.
RECURSIVE RunLenNot(_, _, _)
RunLenNot(s, k, set) ==
  IF k > Len(s) \/ s[k] \in set THEN 0 ELSE 1 + RunLenNot(s, k + 1, set)

\* One character reference at s[k..], the text after an "&": what html.unescape
\* matches with &(#[0-9]+;?|#[xX][0-9a-fA-F]+;?|[^\t\n\f <&#;]{1,32};?) and what
\* it puts in its place.  len = 0: no reference, the "&" stays.
CharRef(s, k) ==
  LET semi(n) == IF k + n <= Len(s) /\ s[k + n] = ";" THEN 1 ELSE 0
      dec     == RunLen(s, k + 1, Digits)
      hex     == RunLen(s, k + 2, HexDigits)
      nm      == LET n == RunLenNot(s, k, {"\t", "\n", " ", "<", "&", "#", ";"})
                 IN  IF n > 32 THEN 32 ELSE n
      name    == SubSeq(s, k, k + nm - 1)
      exact   == {r \in NamedRefs : r.name = name}
      \* without an exact name, the longest known proper prefix of two atoms or more
      pre     == {r \in NamedRefs : /\ Len(r.name) >= 2
                                    /\ Len(r.name) < nm + semi(nm)
                                    /\ Len(r.name) <= nm
                                    /\ SubSeq(s, k, k + Len(r.name) - 1) = r.name}
  IN  IF k > Len(s) THEN [len |-> 0, out |-> <<>>]
      ELSE IF s[k] = "#" /\ dec > 0
      THEN [len |-> 1 + dec + semi(1 + dec),
            out |-> <<Chr(DecValue(SubSeq(s, k + 1, k + dec)))>>]
      ELSE IF s[k] = "#" /\ k + 1 <= Len(s) /\ s[k + 1] \in {"x", "X"} /\ hex > 0
      THEN [len |-> 2 + hex + semi(2 + hex),
            out |-> <<Chr(HexValue(SubSeq(s, k + 2, k + 1 + hex)))>>]
      ELSE IF nm = 0 THEN [len |-> 0, out |-> <<>>]
      ELSE IF exact # {}
      THEN [len |-> nm + semi(nm), out |-> <<(CHOOSE r \in exact : TRUE).out>>]
      ELSE IF pre # {}
      THEN LET r == CHOOSE q \in pre : \A o \in pre : Len(o.name) <= Len(q.name)
           IN  [len |-> Len(r.name), out |-> <<r.out>>]
      ELSE [len |-> 0, out |-> <<>>]

\* html.unescape(s)
RECURSIVE UnescapeFrom(_, _)
UnescapeFrom(s, i) ==
  IF i > Len(s) THEN <<>>
  ELSE IF s[i] # "&" THEN <<s[i]>> \o UnescapeFrom(s, i + 1)
  ELSE LET ref == CharRef(s, i + 1)
       IN  IF ref.len = 0 THEN <<"&">> \o UnescapeFrom(s, i + 1)
           ELSE ref.out \o UnescapeFrom(s, i + 1 + ref.len)

unescape(s) == UnescapeFrom(s, 1)

\* Lines 70-71: tags stripped, whitespace collapsed, entities decoded, trimmed.
NormalizeTitle(raw_title) == Strip(unescape(CollapseWs(StripTags(raw_title))))

(***************************************************************************)
(* The page.  A page is a sequence of tokens: a piece of text (a heading   *)
(* of the page), a date followed by its hyphen ("1/21/2026 - "), or a link *)
(* element <a href="...">...</a>.  Positions in a page are token indexes,  *)
(* 0-based as in Python.                                                   *)
(***************************************************************************)

Text(v) == [k |-> "text", v |-> v, date |-> <<>>, href |-> <<>>, raw |-> <<>>]

\* A date in the shape \d{1,2}/\d{1,2}/\d{2,4} and the hyphen after it.
DateTok(d) == [k |-> "date", v |-> "", date |-> d, href |-> <<>>, raw |-> <<>>]

\* <a href="h">r</a>, r without leading or trailing whitespace.
Anchor(h, r) == [k |-> "a", v |-> "", date |-> <<>>, href |-> h, raw |-> r]

START_AMP == "recent news &amp; updates"
START_RAW == "recent news & updates"
END_MARK  == "recent federal register notices"

\* str.lower() on the headings a page can hold.
LowerText(v) ==
  CASE v = "Recent News &amp; Updates" -> START_AMP
    [] v = "Recent News & Updates" -> START_RAW
    [] v = "Recent Federal Register Notices" -> END_MARK
    [] OTHER -> v

\* page_html.lower()
lower(s) == [i \in 1..Len(s) |-> IF s[i].k = "text" THEN Text(LowerText(s[i].v)) ELSE s[i]]

\* str.find(needle): the 0-based position of the first occurrence, or -1.
find(s, needle) ==
  LET hits == {i \in 1..Len(s) : s[i].k = "text" /\ s[i].v = needle}
  IN  IF hits = {} THEN -1
      ELSE (CHOOSE i \in hits : \A j \in hits : i <= j) - 1

\* Lines 49-51: the "&amp;" form of the start marker first, then the raw form.
StartIdx(page) ==
  LET a == find(lower(page), START_AMP)
  IN  IF a = -1 THEN find(lower(page), START_RAW) ELSE a

\* Line 52
EndIdx(page) == find(lower(page), END_MARK)

\* Line 53
IsolateSection(page) ==
  IF StartIdx(page) # -1 /\ EndIdx(page) # -1
  THEN Slice(page, StartIdx(page), EndIdx(page))
  ELSE page

\* The members of a set of positions, in ascending order.
Ascending(ps) ==
  [n \in 1..Cardinality(ps) |-> CHOOSE p \in ps : Cardinality({q \in ps : q <= p}) = n]

\* pat.finditer(section), lines 57-65.  A match starts at a date and runs,
\* through whatever follows (.*? with DOTALL, other dates included), to the
\* first link element after it; the search for the next match goes on after
\* that link.  So a link element ends a match when a date stands between it
\* and the link element before it, and the first such date is the match's.
finditer(s) ==
  LET links    == {i \in 1..Len(s) : s[i].k = "a"}
      prev(q)  == IF \E i \in links : i < q
                  THEN CHOOSE i \in links : i < q /\ \A j \in links : j < q => j <= i
                  ELSE 0
      dates(q) == {i \in (prev(q) + 1)..(q - 1) : s[i].k = "date"}
      ends     == Ascending({q \in links : dates(q) # {}})
  IN  [n \in 1..Len(ends) |->
        LET q == ends[n]
            p == CHOOSE i \in dates(q) : \A j \in dates(q) : i <= j
        IN  [date_str |-> s[p].date, href |-> s[q].href, raw_title |-> s[q].raw]]

(***************************************************************************)
(* urljoin(SITE_BASE, href).  A URL is a sequence of atoms: a scheme       *)
(* ("https:"), "//", the atoms of the host, then path atoms.               *)
(***************************************************************************)

SITE_BASE == <<"https:", "//", "www.fda.gov">>

Schemes == {"http:", "https:"}

PathAtoms == {"/x", "/y", "/z", "/w"}

\* The host of a URL whose atoms from position k on follow "//".
RECURSIVE NetlocFrom(_, _)
NetlocFrom(u, k) ==
  IF k > Len(u) \/ u[k] \in PathAtoms THEN <<>>
  ELSE <<u[k]>> \o NetlocFrom(u, k + 1)

\* urlsplit raises ValueError("Invalid IPv6 URL") on a host with one bracket only.
BadNetloc(n) ==
  LET has(c) == \E i \in 1..Len(n) : n[i] = c
  IN  has("[") # has("]")

urljoin(base, href) ==
  IF href = <<>> THEN [ok |-> TRUE, url |-> base]
  ELSE IF href[1] \in Schemes
  THEN IF Len(href) >= 2 /\ href[2] = "//" /\ BadNetloc(NetlocFrom(href, 3))
       THEN [ok |-> FALSE, url |-> <<>>]
       ELSE [ok |-> TRUE, url |-> href]
  ELSE IF href[1] = "//"
  THEN IF BadNetloc(NetlocFrom(href, 2))
       THEN [ok |-> FALSE, url |-> <<>>]
       ELSE [ok |-> TRUE, url |-> <<base[1]>> \o href]
  ELSE IF href[1] \in PathAtoms
  THEN [ok |-> TRUE, url |-> base \o href]
  ELSE [ok |-> TRUE, url |-> base \o <<"/">> \o href]

(***************************************************************************)
(* The body of the loop of extract_recent_news_items, the sort, the cap.   *)
(***************************************************************************)

MAX_ITEMS == 50

\* pub_dt.date().isoformat()
DateIso(dt) == <<dt.y, dt.m, dt.d>>

\* A variant of the key that leaves the date out.
KeyWithoutDate(t, url, dt) == <<t, url, <<0, 0, 0>>>>

\* Line 80
KeyOf(t, url, dt) == <<t, url, DateIso(dt)>>

\* Lines 66-83 for one match m: what the iteration leaves in items and seen,
\* or the exception that leaves the function (raised).
LoopBody(m, its, sn) ==
  LET href == Strip(m.href)
      t    == NormalizeTitle(m.raw_title)
      u    == urljoin(SITE_BASE, href)
      dt   == parse_mmddyyyy(m.date_str)
      key  == KeyOf(t, u.url, dt)
  IN  IF ~u.ok THEN [raised |-> TRUE, items |-> its, seen |-> sn]
      ELSE IF ~dt.ok THEN [raised |-> FALSE, items |-> its, seen |-> sn]
      ELSE IF t # <<>> /\ key \notin sn
      THEN [raised |-> FALSE,
            items |-> Append(its, [pub_dt |-> dt, title |-> t, url |-> u.url]),
            seen |-> sn \cup {key}]
      ELSE [raised |-> FALSE, items |-> its, seen |-> sn]

\* a < b for two datetimes at midnight UTC
DtLess(a, b) ==
  \/ a.y < b.y
  \/ a.y = b.y /\ a.m < b.m
  \/ a.y = b.y /\ a.m = b.m /\ a.d < b.d

\* The entries of its, the entry at position i put at place[i].
Arrange(its, place) ==
  [n \in 1..Len(its) |-> its[CHOOSE i \in 1..Len(its) : place[i] = n]]

\* A variant of the sort: oldest first, then reversed, which turns the order
\* of the entries of one date around.
SortThenReverse(its) ==
  LET place == [i \in 1..Len(its) |->
        1 + Cardinality({j \in 1..Len(its) : DtLess(its[i].pub_dt, its[j].pub_dt)})
          + Cardinality({j \in (i + 1)..Len(its) : its[j].pub_dt = its[i].pub_dt})]
  IN  Arrange(its, place)

\* Line 86: items.sort(key=lambda x: x[0], reverse=True).  list.sort is stable,
\* with reverse=True too: an entry comes after the newer ones and after the
\* entries of its own date that stood before it.
SortNewestFirst(its) ==
  LET place == [i \in 1..Len(its) |->
        1 + Cardinality({j \in 1..Len(its) : DtLess(its[i].pub_dt, its[j].pub_dt)})
          + Cardinality({j \in 1..(i - 1) : its[j].pub_dt = its[i].pub_dt})]
  IN  Arrange(its, place)

\* A variant of the cap that keeps one entry fewer.
TruncateShort(its) == Take(its, MAX_ITEMS - 1)

\* items[:MAX_ITEMS]
Truncate(its) == Take(its, MAX_ITEMS)

\* A variant that caps the list in document order and sorts what is left.
CapThenSort(its) == SortNewestFirst(Truncate(its))

\* Lines 86-87: what extract_recent_news_items returns.
Returned(its) == Truncate(SortNewestFirst(its))

(***************************************************************************)
(* main: the item blocks and the document.                                 *)
(***************************************************************************)

DayNames == <<"Mon", "Tue", "Wed", "Thu", "Fri", "Sat", "Sun">>

MonthNames == <<"Jan", "Feb", "Mar", "Apr", "May", "Jun",
                "Jul", "Aug", "Sep", "Oct", "Nov", "Dec">>

\* The days of year y before month m.
RECURSIVE DaysBeforeMonth(_, _)
DaysBeforeMonth(y, m) ==
  IF m <= 1 THEN 0 ELSE DaysBeforeMonth(y, m - 1) + DaysInMonth(y, m - 1)

\* date.toordinal(): 1 for 0001-01-01, a Monday.
ToOrdinal(dt) ==
  LET p == dt.y - 1
  IN  p * 365 + (p \div 4) - (p \div 100) + (p \div 400) + DaysBeforeMonth(dt.y, dt.m) + dt.d

\* rfc2822(dt): "%a, %d %b %Y %H:%M:%S %z" of a UTC datetime, field by field.
rfc2822(dt) ==
  [a |-> DayNames[((ToOrdinal(dt) + 6) % 7) + 1], d |-> dt.d, b |-> MonthNames[dt.m],
   Y |-> dt.y, H |-> dt.hh, M |-> dt.mi, S |-> dt.ss, z |-> "+0000"]

\* Lines 98-104: one <item> block.
ItemBlock(e) ==
  [title |-> escape(e.title), link |-> escape(e.url), guid |-> escape(e.url),
   pubDate |-> rfc2822(e.pub_dt)]

\* Lines 95-105
RssItems(its) == [i \in 1..Len(its) |-> ItemBlock(its[i])]

\* Lines 107-117: the document, its channel fields and its item blocks.
RssDocument(blocks, now) ==
  [title |-> escape(<<"FDA Cosmetics News ", "&", " Events">>),
   link |-> escape(<<"https:", "//", "www.fda.gov", "/cosmetics/cosmetics-news-events">>),
   description |-> escape(<<"Unofficial RSS feed generated from FDA Cosmetics News ", "&",
                            " Events (Recent News ", "&", " Updates).">>),
   lastBuildDate |-> rfc2822(now),
   items |-> blocks]

\* datetime.now(timezone.utc): the instants a run can be made at (the time of
\* day is not kept).
BuildInstants == {MakeDatetime(2026, 1, 22), MakeDatetime(2026, 11, 1)}

\* feed.xml before the run, an earlier run's output.
OldFile == [state |-> "old", doc |-> <<>>]

\* feed.xml after open(..., "w") emptied it and the write failed.
EmptiedFile == [state |-> "emptied", doc |-> <<>>]

WrittenFile(doc) == [state |-> "written", doc |-> <<doc>>]

(***************************************************************************)
(* Pages.                                                                  *)
(***************************************************************************)

MaxChunks == 3

LongExtra == 2

D_2026_01_21 == <<"1", "/", "2", "1", "/", "2", "0", "2", "6">>
D_25_12_29   == <<"1", "2", "/", "2", "9", "/", "2", "5">>
D_26_01_21   == <<"1", "/", "2", "1", "/", "2", "6">>
D_13_40      == <<"1", "3", "/", "4", "0", "/", "2", "0", "2", "6">>
D_02_30      == <<"2", "/", "3", "0", "/", "2", "0", "2", "6">>
D_2026_02_03 == <<"2", "/", "3", "/", "2", "0", "2", "6">>

\* The pieces a short page is made of: the three headings, six dated links, a
\* date with no link after it.
Chunks ==
  { <<Text("Recent News &amp; Updates")>>,
    <<Text("Recent News & Updates")>>,
    <<Text("Recent Federal Register Notices")>>,
    <<DateTok(D_2026_01_21), Anchor(<<"/x">>, <<"Title", " ", "A">>)>>,
    \* the same title and link on another day, the title over two lines
    <<DateTok(D_25_12_29), Anchor(<<"/x">>, <<"Title", "\n", " ", "A">>)>>,
    \* the first link again, its date and title written differently
    <<DateTok(D_26_01_21), Anchor(<<" ", "/x">>, <<"<", "b", ">", "Title", " ", "A", "<", "/", "b", ">">>)>>,
    \* another link of the first one's date
    <<DateTok(D_2026_01_21),
      Anchor(<<"https:", "//", "example.org", "/w">>, <<"Q", "&", "a", "m", "p", ";", "A">>)>>,
    \* no such date
    <<DateTok(D_13_40), Anchor(<<"/z">>, <<"Title", " ", "C">>)>>,
    \* no title
    <<DateTok(D_2026_02_03), Anchor(<<"/y">>, <<"<", "i", ">", "&", "n", "b", "s", "p", ";", "<", "/", "i", ">">>)>>,
    \* a link urljoin cannot split
    <<DateTok(D_2026_02_03), Anchor(<<"http:", "//", "[">>, <<"Title", " ", "D">>)>>,
    <<DateTok(D_02_30)>> }

RECURSIVE Flatten(_)
Flatten(ss) == IF ss = <<>> THEN <<>> ELSE Head(ss) \o Flatten(Tail(ss))

ShortPages ==
  {Flatten(cs) : cs \in UNION {[1..n -> Chunks] : n \in 0..MaxChunks}}

LongDates == <<D_25_12_29, D_2026_01_21, D_2026_02_03>>

\* A listing of n dated links, the dates going round LongDates.  "distinct":
\* n titles; "echo": the second link is the first one again.
LongPage(n, kind) ==
  [j \in 1..(2 * n) |->
    LET i == (j + 1) \div 2
        t == IF kind = "echo" /\ i = 2 THEN 1 ELSE i
    IN  IF j % 2 = 1 THEN DateTok(LongDates[(t % 3) + 1])
        ELSE Anchor(<<"/x">>, <<"Item", " ", ToString(t)>>)]

LongPages ==
  {LongPage(n, kind) : n \in (MAX_ITEMS - 1)..(MAX_ITEMS + LongExtra),
                       kind \in {"distinct", "echo"}}

Pages == ShortPages \cup LongPages

(***************************************************************************)
(* The run of main.                                                        *)
(***************************************************************************)

Start ==
  /\ err = "none" /\ status = -1
  /\ page_html = <<>> /\ section = <<>> /\ ms = <<>> /\ mi = 0
  /\ items = <<>> /\ seen = {} /\ main_items = <<>> /\ rss_items = <<>>
  /\ build_dt = Raised /\ feed_file = OldFile /\ printed = -1
  /\ date_str = <<>> /\ pub_dt = Raised /\ title = <<>> /\ title_xml = <<>>

Init == pc = "fetch" /\ Start

\* Line 90: fetch returns the page.
Fetch ==
  /\ pc = "fetch"
  /\ \E p \in Pages : page_html' = p
  /\ pc' = "isolate"
  /\ UNCHANGED <<err, status, section, ms, mi, items, seen, main_items, rss_items,
                 build_dt, feed_file, printed, date_str, pub_dt, title, title_xml>>

\* Line 90: urlopen or read raises (timeout, connection error); nothing catches
\* it, the process ends with a traceback and status 1.
FetchFail ==
  /\ pc = "fetch"
  /\ pc' = "aborted" /\ err' = "fetch" /\ status' = 1
  /\ UNCHANGED <<page_html, section, ms, mi, items, seen, main_items, rss_items,
                 build_dt, feed_file, printed, date_str, pub_dt, title, title_xml>>

\* Lines 49-65: the section, the pattern's matches, the empty items and seen.
Isolate ==
  /\ pc = "isolate"
  /\ section' = IsolateSection(page_html)
  /\ ms' = finditer(section')
  /\ mi' = 1 /\ items' = <<>> /\ seen' = {}
  /\ pc' = "scan"
  /\ UNCHANGED <<err, status, page_html, main_items, rss_items, build_dt, feed_file,
                 printed, date_str, pub_dt, title, title_xml>>

\* Lines 65-83: one iteration of the loop.  An exception the body does not
\* catch leaves extract_recent_news_items and main.
Scan ==
  /\ pc = "scan" /\ mi <= Len(ms)
  /\ LET r == LoopBody(ms[mi], items, seen)
     IN  IF r.raised
         THEN /\ pc' = "aborted" /\ err' = "extract" /\ status' = 1
              /\ UNCHANGED <<mi, items, seen>>
         ELSE /\ items' = r.items /\ seen' = r.seen /\ mi' = mi + 1
              /\ UNCHANGED <<pc, err, status>>
  /\ UNCHANGED <<page_html, section, ms, main_items, rss_items, build_dt, feed_file,
                 printed, date_str, pub_dt, title, title_xml>>

\* Lines 86-87 and 91: items sorted in place, its first MAX_ITEMS returned to main.
SortReturn ==
  /\ pc = "scan" /\ mi > Len(ms)
  /\ items' = SortNewestFirst(items)
  /\ main_items' = Returned(items)
  /\ pc' = "serialize"
  /\ UNCHANGED <<err, status, page_html, section, ms, mi, seen, rss_items, build_dt,
                 feed_file, printed, date_str, pub_dt, title, title_xml>>

\* Lines 93-117
Serialize ==
  /\ pc = "serialize"
  /\ \E t \in BuildInstants : build_dt' = t
  /\ rss_items' = RssItems(main_items)
  /\ pc' = "persist"
  /\ UNCHANGED <<err, status, page_html, section, ms, mi, items, seen, main_items,
                 feed_file, printed, date_str, pub_dt, title, title_xml>>

\* A variant of the write that leaves feed.xml as it was.
WriteNothing(doc) == feed_file

\* Lines 119-120: what is in feed.xml after the write.
WriteFile(doc) == WrittenFile(doc)

Persist ==
  /\ pc = "persist"
  /\ feed_file' = WriteFile(RssDocument(rss_items, build_dt))
  /\ pc' = "report"
  /\ UNCHANGED <<err, status, page_html, section, ms, mi, items, seen, main_items,
                 rss_items, build_dt, printed, date_str, pub_dt, title, title_xml>>

\* Lines 119-120: open raises and feed.xml is as before, or the write raises
\* after open emptied it.
PersistFail ==
  /\ pc = "persist"
  /\ feed_file' \in {feed_file, EmptiedFile}
  /\ pc' = "aborted" /\ err' = "persist" /\ status' = 1
  /\ UNCHANGED <<page_html, section, ms, mi, items, seen, main_items, rss_items,
                 build_dt, printed, date_str, pub_dt, title, title_xml>>

\* Lines 122-123 and 126
Report ==
  /\ pc = "report"
  /\ printed' = Len(main_items)
  /\ status' = 0
  /\ pc' = "done"
  /\ UNCHANGED <<err, page_html, section, ms, mi, items, seen, main_items, rss_items,
                 build_dt, feed_file, date_str, pub_dt, title, title_xml>>

Next ==
  \/ Fetch \/ FetchFail \/ Isolate \/ Scan \/ SortReturn
  \/ Serialize \/ Persist \/ PersistFail \/ Report

Spec == Init /\ [][Next]_vars

(***************************************************************************)
(* parse_mmddyyyy on its own, over date strings of every shape.            *)
(***************************************************************************)

Chars(fields) ==
  fields[1] \o <<"/">> \o fields[2] \o <<"/">> \o fields[3]

MonthFields == {<<"1">>, <<"0", "2">>, <<"1", "2">>, <<"1", "3">>, <<"0">>, <<" ", "4">>}

DayFields == {<<"1">>, <<"2", "9">>, <<"3", "0">>, <<"3", "1">>, <<"4", "0">>, <<"0">>}

YearFields ==
  { <<"2", "5">>, <<"9", "9">>, <<"0", "0">>, <<"0">>, <<"1", "0", "0">>,
    <<"1", "9", "0", "0">>, <<"2", "0", "2", "4">>, <<"2", "0", "2", "6">>,
    <<"9", "9", "9", "9">>, <<"1", "0", "0", "0", "0">>, <<"-", "5">>, <<"2", "6", " ">> }

DateStrings ==
  {Chars(<<m, d, y>>) : m \in MonthFields, d \in DayFields, y \in YearFields}
  \cup { <<>>, <<"1", "/", "2">>, <<"1", "/", "2", "/", "3", "/", "4">>,
         <<"a", "/", "b", "/", "c">>, <<"1", "/", "/", "2", "0", "2", "6">>,
         <<"1", "-", "2", "-", "2", "0", "2", "6">> }

InitDate ==
  /\ pc = "parse"
  /\ err = "none" /\ status = -1
  /\ page_html = <<>> /\ section = <<>> /\ ms = <<>> /\ mi = 0
  /\ items = <<>> /\ seen = {} /\ main_items = <<>> /\ rss_items = <<>>
  /\ build_dt = Raised /\ feed_file = OldFile /\ printed = -1
  /\ date_str \in DateStrings /\ pub_dt = Raised /\ title = <<>> /\ title_xml = <<>>

\* Line 76: pub_dt = parse_mmddyyyy(date_str), or the exception.
ParseDate ==
  /\ pc = "parse"
  /\ pub_dt' = parse_mmddyyyy(date_str)
  /\ pc' = "parsed"
  /\ UNCHANGED <<err, status, page_html, section, ms, mi, items, seen, main_items,
                 rss_items, build_dt, feed_file, printed, date_str, title, title_xml>>

NextDate == ParseDate

SpecDate == InitDate /\ [][NextDate]_vars

(***************************************************************************)
(* The <title> element of an item block, over titles of every shape.       *)
(***************************************************************************)

MaxTitleLen == 4

TitleAlphabet == {"&", "<", ">", "\"", "'", "l", "t", ";"}

Titles == UNION {[1..n -> TitleAlphabet] : n \in 1..MaxTitleLen}

InitTitle ==
  /\ pc = "title"
  /\ err = "none" /\ status = -1
  /\ page_html = <<>> /\ section = <<>> /\ ms = <<>> /\ mi = 0
  /\ items = <<>> /\ seen = {} /\ main_items = <<>> /\ rss_items = <<>>
  /\ build_dt = Raised /\ feed_file = OldFile /\ printed = -1
  /\ date_str = <<>> /\ pub_dt = Raised /\ title \in Titles /\ title_xml = <<>>

\* Line 100 for an entry of this title.
SerializeTitle ==
  /\ pc = "title"
  /\ title_xml' = ItemBlock([pub_dt |-> MakeDatetime(2026, 1, 21), title |-> title,
                             url |-> SITE_BASE]).title
  /\ pc' = "title_done"
  /\ UNCHANGED <<err, status, page_html, section, ms, mi, items, seen, main_items,
                 rss_items, build_dt, feed_file, printed, date_str, pub_dt, title>>

NextTitle == SerializeTitle

SpecTitle == InitTitle /\ [][NextTitle]_vars

(***************************************************************************)
(* Properties.                                                             *)
(***************************************************************************)

\* The section has been cut (line 53 has run).
Isolated ==
  \/ pc \in {"scan", "serialize", "persist", "report", "done"}
  \/ pc = "aborted" /\ err \in {"extract", "persist"}

\* extract_recent_news_items has returned.
Extracted ==
  \/ pc \in {"serialize", "persist", "report", "done"}
  \/ pc = "aborted" /\ err = "persist"

\* The item blocks have been built.
Serialized ==
  \/ pc \in {"persist", "report", "done"}
  \/ pc = "aborted" /\ err = "persist"

\* The positions (from 1) of the start marker in the page, in either
\* encoding of the ampersand and whatever its case, and those of the end marker.
StartPositions ==
  {i \in 1..Len(page_html) :
     page_html[i].k = "text" /\ LowerText(page_html[i].v) \in {START_AMP, START_RAW}}

EndPositions ==
  {i \in 1..Len(page_html) :
     page_html[i].k = "text" /\ LowerText(page_html[i].v) = END_MARK}

Least(ps) == CHOOSE p \in ps : \A q \in ps : p <= q

\* C1: when the start marker is absent, or the end marker is absent, or no end
\* marker stands after the start marker, the section that is scanned is the
\* whole page.
C1_FallbackToWholePage ==
  (/\ Isolated
   /\ \/ StartPositions = {}
      \/ EndPositions = {}
      \/ ~\E e \in EndPositions : e > Least(StartPositions))
  => section = page_html

\* C2: when an end marker stands at or after the first start marker (of either
\* encoding), the section runs from that first start marker up to the first
\* end marker at or after it.
C2_SectionSpan ==
  (/\ Isolated
   /\ StartPositions # {}
   /\ \E e \in EndPositions : e >= Least(StartPositions))
  => LET a == Least(StartPositions)
         b == Least({e \in EndPositions : e >= a})
     IN  section = SubSeq(page_html, a, b - 1)

\* What a match stands for: its date, its title, its link.
EntryOf(m) ==
  [pub_dt |-> parse_mmddyyyy(m.date_str),
   title  |-> NormalizeTitle(m.raw_title),
   url    |-> urljoin(SITE_BASE, Strip(m.href)).url]

\* The entries the matches stand for, in document order (a sequence whose
\* elements are computed once).
Entries == <<>> \o [k \in 1..Len(ms) |-> EntryOf(ms[k])]

\* An entry that may be collected: its date parses and its title is not empty.
Valid(e) == e.pub_dt.ok /\ e.title # <<>>

\* (title, url, calendar date) of an entry
DedupKey(e) == <<e.title, e.url, e.pub_dt.y, e.pub_dt.m, e.pub_dt.d>>

\* Among the entries es, those before position n that are valid and the first
\* of their key.
FirstOfKey(es, n) ==
  {k \in 1..(n - 1) :
     /\ Valid(es[k])
     /\ \A j \in 1..(k - 1) : Valid(es[j]) => DedupKey(es[j]) # DedupKey(es[k])}

\* C3: no two entries of the list share a (title, url, calendar date) key, in
\* the loop and in what is returned, and the entries collected are, in document
\* order, the first match of each key.
C3_Dedup ==
  LET es == Entries
  IN  /\ pc = "scan" =>
           LET first == FirstOfKey(es, mi)
               rank  == [k \in first |-> Cardinality({q \in first : q <= k})]
           IN  /\ Len(items) = Cardinality(first)
               /\ \A k \in first : items[rank[k]] = es[k]
      /\ Extracted =>
           LET first == FirstOfKey(es, Len(ms) + 1)
           IN  /\ \A i, j \in 1..Len(main_items) :
                    i # j => DedupKey(main_items[i]) # DedupKey(main_items[j])
               /\ \A i \in 1..Len(main_items) : \E k \in first : es[k] = main_items[i]

\* Two different matches of one key, the second one dropped.
C3_Witness ==
  LET es == Entries
  IN  /\ pc = "done"
      /\ \E j, k \in 1..Len(ms) :
           /\ j < k /\ Valid(es[j]) /\ ms[j] # ms[k]
           /\ DedupKey(es[j]) = DedupKey(es[k])
      /\ Len(main_items) >= 2

\* For each entry of its, the first match that makes it.
FirstPos(es, its) ==
  [i \in 1..Len(its) |-> Least({k \in 1..Len(es) : Valid(es[k]) /\ es[k] = its[i]})]

\* The date an item block shows, as <<year, month, day>>.
BlockDate(b) ==
  <<b.pubDate.Y, CHOOSE n \in 1..12 : MonthNames[n] = b.pubDate.b, b.pubDate.d>>

TripleLess(a, b) ==
  \/ a[1] < b[1]
  \/ a[1] = b[1] /\ a[2] < b[2]
  \/ a[1] = b[1] /\ a[2] = b[2] /\ a[3] < b[3]

\* C4: the entries returned and the item blocks are newest first, and entries
\* of one date stand in the order of their first appearance in the document.
C4_Ordering ==
  /\ Extracted =>
       LET fp == FirstPos(Entries, main_items)
       IN  \A i, j \in 1..Len(main_items) :
             i < j =>
               /\ ~DtLess(main_items[i].pub_dt, main_items[j].pub_dt)
               /\ main_items[i].pub_dt = main_items[j].pub_dt => fp[i] < fp[j]
  /\ Serialized =>
       LET bd == [i \in 1..Len(rss_items) |-> BlockDate(rss_items[i])]
       IN  /\ Len(rss_items) = Len(main_items)
           /\ \A i \in 1..Len(rss_items) :
                /\ unescape(rss_items[i].title) = main_items[i].title
                /\ bd[i] = DateIso(main_items[i].pub_dt)
           /\ \A i, j \in 1..Len(rss_items) : i < j => ~TripleLess(bd[i], bd[j])

\* Two entries of one date and an older one, found in another order.
C4_Witness ==
  /\ pc = "done"
  /\ \E i, j \in 1..Len(main_items) :
       i < j /\ main_items[i].pub_dt = main_items[j].pub_dt
  /\ LET fp == FirstPos(Entries, main_items)
     IN  \E i, j \in 1..Len(main_items) : i < j /\ fp[j] < fp[i]

\* The number of deduplicated entries of the section.
Deduplicated ==
  LET es == Entries
  IN  Cardinality({DedupKey(es[k]) : k \in {n \in 1..Len(es) : Valid(es[n])}})

Min(a, b) == IF a < b THEN a ELSE b

\* C5: the number of item blocks, in rss_items and in the file written, and
\* the count printed are min(deduplicated entries, 50).
C5_ItemCount ==
  LET n == Min(Deduplicated, MAX_ITEMS)
  IN  /\ Serialized => Len(rss_items) = n
      /\ feed_file.state = "written" => Len(feed_file.doc[1].items) = n
      /\ pc = "done" => printed = n

\* More matches than entries, more entries than the cap.
C5_Witness ==
  /\ pc = "done"
  /\ LET n == Deduplicated IN Len(ms) > n /\ n > MAX_ITEMS
  /\ printed = MAX_ITEMS

\* C6: a date that parses has month and day as written, the year as written
\* when it is 100 or more and 2000 more when it is below 100, at midnight UTC.
C6_YearNormalization ==
  (pc = "parsed" /\ pub_dt.ok) =>
    LET f == Split(Strip(date_str), "/")
        y == ParseInt(f[3]).val
    IN  /\ Len(f) = 3
        /\ pub_dt.y = (IF y < 100 THEN 2000 + y ELSE y)
        /\ pub_dt.m = ParseInt(f[1]).val
        /\ pub_dt.d = ParseInt(f[2]).val
        /\ pub_dt.hh = 0 /\ pub_dt.mi = 0 /\ pub_dt.ss = 0 /\ pub_dt.tz = "UTC"

\* 12/29/25 parsed as 2025-12-29.
C6_Witness ==
  /\ pc = "parsed" /\ pub_dt.ok
  /\ ParseInt(Split(Strip(date_str), "/")[3]).val = 25
  /\ pub_dt.y = 2025 /\ pub_dt.m = 12 /\ pub_dt.d = 29

\* C7: an iteration of the loop never raises, and on a match whose date does
\* not parse it leaves items and seen as they are and goes on to the next match.
C7_SkipAndContinue ==
  [][(pc = "scan" /\ mi <= Len(ms)) =>
       /\ pc' = "scan"
       /\ mi' = mi + 1
       /\ ~parse_mmddyyyy(ms[mi].date_str).ok => (items' = items /\ seen' = seen)]_vars

\* The steps a run may take, one after the other.
StepOrder ==
  { <<"fetch", "isolate">>, <<"fetch", "aborted">>, <<"isolate", "scan">>,
    <<"scan", "scan">>, <<"scan", "serialize">>, <<"scan", "aborted">>,
    <<"serialize", "persist">>, <<"persist", "report">>, <<"persist", "aborted">>,
    <<"report", "done">> }

\* C8: the steps come in the order fetch, extract, serialize, persist, report;
\* a failed fetch ends the run with feed.xml as it was and a status other than
\* 0; feed.xml is written by the persist step only, and status 0 is returned
\* only with feed.xml written.
C8_RunOrdering ==
  [][/\ <<pc, pc'>> \in StepOrder
     /\ (pc = "fetch" /\ pc' = "aborted") =>
          (feed_file' = feed_file /\ status' # 0 /\ err' = "fetch")
     /\ feed_file' # feed_file => pc = "persist"
     /\ status' = 0 => (pc = "report" /\ feed_file'.state = "written")
     /\ pc' = "report" => feed_file'.state = "written"]_vars

\* A failed fetch: the run is over, the earlier feed.xml is there.
C8_Witness == pc = "aborted" /\ err = "fetch" /\ feed_file = OldFile /\ status = 1

\* Each "&" of s begins one of the five references html.escape writes.
OnlyEscapes(s) ==
  \A i \in 1..Len(s) :
    /\ s[i] \notin {"<", ">", "\"", "'"}
    /\ s[i] = "&" =>
         \E r \in { <<"a", "m", "p", ";">>, <<"l", "t", ";">>, <<"g", "t", ";">>,
                    <<"q", "u", "o", "t", ";">>, <<"#", "x", "2", "7", ";">> } :
           /\ i + Len(r) <= Len(s)
           /\ SubSeq(s, i + 1, i + Len(r)) = r

\* C9: the serialized title holds "<", ">", "&" and '"' in escaped form only,
\* and unescaping it gives the title back.
C9_EscapeRoundTrip ==
  pc = "title_done" => (OnlyEscapes(title_xml) /\ unescape(title_xml) = title)

\* The title &lt; (four characters), serialized as &amp;lt;
C9_Witness ==
  /\ pc = "title_done"
  /\ title = <<"&", "l", "t", ";">>
  /\ title_xml = <<"&", "a", "m", "p", ";", "l", "t", ";">>

\* C10: an entry the cap drops is not newer than any entry it keeps.
C10_CapKeepsNewest ==
  Extracted =>
    \A i \in 1..Len(items) :
      (\A k \in 1..Len(main_items) : main_items[k] # items[i]) =>
        \A k \in 1..Len(main_items) : ~DtLess(main_items[k].pub_dt, items[i].pub_dt)

\* More than 50 entries, one of them dropped, the kept ones of several dates.
C10_Witness ==
  /\ pc = "done"
  /\ Len(items) > MAX_ITEMS
  /\ Len(main_items) = MAX_ITEMS
  /\ \E i \in 1..Len(items) : \A k \in 1..Len(main_items) : main_items[k] # items[i]
  /\ main_items[1].pub_dt # main_items[MAX_ITEMS].pub_dt

====
